---- MODULE Spec2Model ----
(***************************************************************************)
(* A model of src/src/settings.rs: the SettingsManager, its in-memory      *)
(* sequence of Content entries and the directory it persists them to.     *)
(*                                                                         *)
(* Strings whose structure the code looks into (entry names, file names)   *)
(* are sequences of characters; the extension "toml" is one character of  *)
(* that alphabet.  A TOML text is a sequence of lines, each line a tuple.  *)
(* A panic (unwrap / panic!) ends the operation where it stands and leaves *)
(* the manager in the state it had at that point (status "panicked").     *)
(***************************************************************************)
EXTENDS Integers, Sequences, FiniteSets, TLC

VARIABLES
    dirs,      \* the directories that exist, among "base" and "default"
    files,     \* the regular files: a function from <<dir, file name>> to text
    settings,  \* SettingsManager.settings: Vec<Content>
    status,    \* "absent" (not constructed), "ready", "panicked"
    now,       \* the local clock chrono::Local::now() reads
    faults,    \* how many file operations have failed so far
    last       \* the last operation called, its argument and its outcome

vars == <<dirs, files, settings, status, now, faults, last>>

----------------------------------------------------------------------------
(* Bounds of the model *)

MaxEntries == 2   \* entries a usable manager holds at most
MaxClock == 2     \* the clock runs from 0 to MaxClock; a push that stamps advances it
MaxFaults == 1    \* file operations (open, read, create, write) that fail at most

(* The inputs callers pass *)

NameSet == { <<"a">>, <<"b">>, <<"a", ".", "b">> }

NoPayload == [kind |-> "none", pairs |-> << >>]
TablePayload == [kind |-> "table", pairs |-> << <<"k1", "v1">> >>]
ScalarPayload == [kind |-> "scalar", pairs |-> << <<"", "7">> >>]
PayloadSet == { TablePayload, ScalarPayload }

----------------------------------------------------------------------------
(* Paths *)

\* The index of the last "." of a file name, 0 when it has none.
LastDot(s) ==
    LET D == { i \in 1..Len(s) : s[i] = "." }
    IN  IF D = {} THEN 0 ELSE CHOOSE i \in D : \A j \in D : j <= i

\* Path::file_stem: the name up to its last ".", the whole name when the
\* only "." is the leading one or there is none.
FileStem(s) == IF LastDot(s) <= 1 THEN s ELSE SubSeq(s, 1, LastDot(s) - 1)

\* Path::extension: what follows the last ".", << >> for None.
Extension(s) == IF LastDot(s) <= 1 THEN << >> ELSE SubSeq(s, LastDot(s) + 1, Len(s))

\* PathBuf::set_extension: the stem, a "." and the new extension.
SetExtension(s, ext) == FileStem(s) \o <<".">> \o ext

\* The file save() writes an entry of this name to.
FileName(name) == <<"base", SetExtension(name, <<"toml">>)>>

----------------------------------------------------------------------------
(* Entries and their TOML text *)

\* String::new() / Default for a String field, as a sequence.
EmptyString == << >>

\* chrono::Local::now().to_string()
DateToString(t) == <<"date", t>>

\* hex::encode of the Sha1 digest of a text
Sha1Hex(text) == <<"sha1", text>>

\* Content { header: Header { name, modified, hash, date }, settings }
MakeContent(name, modified, hash, date, payload) ==
    [header |-> [name |-> name, modified |-> modified, hash |-> hash, date |-> date],
     settings |-> payload]

\* The [header] table: its four keys, written as one block.
HeaderLines(h) ==
    << <<"[header]", <<"name", h.name>>, <<"modified", h.modified>>,
         <<"hash", h.hash>>, <<"date", h.date>>>> >>

\* The lines of the settings field: nothing for None, the [settings] table
\* and its keys for a table.
SettingsLines(p) ==
    IF p.kind = "table" THEN << <<"[settings]">> >> \o p.pairs ELSE << >>

\* toml::to_string_pretty of a Content. The header is a table, so a settings
\* value that is not a table would be a value after a table, which the
\* serializer refuses.
ToStringPretty(c) ==
    IF c.settings.kind = "scalar"
    THEN [ok |-> FALSE, text |-> << >>]
    ELSE [ok |-> TRUE, text |-> HeaderLines(c.header) \o SettingsLines(c.settings)]

\* Whether a text starts with a complete [header] table.
HasHeader(text) ==
    /\ Len(text) >= 1
    /\ Len(text[1]) = 5
    /\ text[1][1] = "[header]"
    /\ text[1][2][1] = "name"
    /\ text[1][3][1] = "modified"
    /\ text[1][4][1] = "hash"
    /\ text[1][5][1] = "date"

\* Whether what follows the header is nothing or a [settings] table.
HasSettings(text) ==
    \/ Len(text) = 1
    \/ /\ Len(text) >= 2
       /\ text[2] = <<"[settings]">>
       /\ \A i \in 3..Len(text) : Len(text[i]) = 2

\* A parse that takes the digest of the text read for the entry's hash.
FromStrRehash(text) ==
    IF HasHeader(text) /\ HasSettings(text)
    THEN [ok |-> TRUE,
          content |-> MakeContent(text[1][2][2], text[1][3][2], Sha1Hex(text), text[1][5][2],
                         IF Len(text) = 1 THEN NoPayload
                         ELSE [kind |-> "table", pairs |-> SubSeq(text, 3, Len(text))])]
    ELSE [ok |-> FALSE,
          content |-> MakeContent(EmptyString, FALSE, EmptyString, EmptyString, NoPayload)]

\* toml::from_str::<Content>: the entry a text holds, or an error.
FromStr(text) ==
    IF HasHeader(text) /\ HasSettings(text)
    THEN [ok |-> TRUE,
          content |-> MakeContent(text[1][2][2], text[1][3][2], text[1][4][2], text[1][5][2],
                         IF Len(text) = 1 THEN NoPayload
                         ELSE [kind |-> "table", pairs |-> SubSeq(text, 3, Len(text))])]
    ELSE [ok |-> FALSE,
          content |-> MakeContent(EmptyString, FALSE, EmptyString, EmptyString, NoPayload)]

----------------------------------------------------------------------------
(* The file system *)

NoFiles == << >>

\* A file created or overwritten with a text.
Put(fs, f, text) == [p \in (DOMAIN fs) \cup {f} |-> IF p = f THEN text ELSE fs[p]]

\* What load() keeps of read_dir(path): the files directly in the base
\* directory whose extension is "toml".
TomlFiles(fs) == { p \in DOMAIN fs : p[1] = "base" /\ Extension(p[2]) = <<"toml">> }

\* The orders read_dir may list a set of files in.
Orders(S) ==
    { o \in [1..Cardinality(S) -> S] : \A i, j \in 1..Cardinality(S) : o[i] = o[j] => i = j }

----------------------------------------------------------------------------
(* SettingsManager *)

\* A search that compares the name with the wrong header field.
NameExistsByHash(s, name) == \E i \in 1..Len(s) : s[i].header.hash = name

\* push's search: some entry in memory has this header name.
NameExists(s, name) == \E i \in 1..Len(s) : s[i].header.name = name

\* SettingsManager::push at clock reading t: the sequence afterwards and
\* how the call ended.
PushResult(s, c, t) ==
    IF NameExists(s, c.header.name)
    THEN [settings |-> s, status |-> "ready", outcome |-> "exists"]
    ELSE LET stamped == [c EXCEPT !.header.date = DateToString(t),
                                  !.header.modified = FALSE]
             ser == ToStringPretty(stamped)
         IN  IF ~ser.ok
             THEN [settings |-> s, status |-> "panicked", outcome |-> "panic"]
             ELSE [settings |-> Append(s, [stamped EXCEPT !.header.hash = Sha1Hex(ser.text)]),
                   status |-> "ready", outcome |-> "added"]

\* The loop of load() over the listed files; the open or read of the
\* failAt-th of them fails (none when failAt < 1).
RECURSIVE LoadFiles(_, _, _, _)
LoadFiles(s, order, fs, failAt) ==
    IF order = << >>
    THEN [settings |-> s, status |-> "ready"]
    ELSE IF failAt = 1
    THEN [settings |-> s, status |-> "panicked"]
    ELSE LET r == FromStr(fs[Head(order)])
         IN  IF ~r.ok
             THEN [settings |-> s, status |-> "panicked"]
             ELSE LoadFiles(Append(s, r.content), Tail(order), fs, failAt - 1)

\* A load() that clears the entries in memory first.
LoadResultClearing(s, ds, fs, order, failAt) ==
    IF "base" \notin ds
    THEN [settings |-> s, status |-> "panicked"]
    ELSE LoadFiles(<< >>, order, fs, failAt)

\* SettingsManager::load: read_dir of the base path, then the loop.
LoadResult(s, ds, fs, order, failAt) ==
    IF "base" \notin ds
    THEN [settings |-> s, status |-> "panicked"]
    ELSE LoadFiles(s, order, fs, failAt)

\* No fault injected into a save() or a load().
NoFault == [at |-> 0, kind |-> "none", len |-> 0]

\* The loop of save() from entry i on. fault.kind = "create": File::create
\* of entry fault.at fails; "write": write_all of entry fault.at fails after
\* fault.len lines.
RECURSIVE SaveEntries(_, _, _, _, _)
SaveEntries(s, i, ds, fs, fault) ==
    IF i > Len(s)
    THEN [files |-> fs, status |-> "ready"]
    ELSE LET f == FileName(s[i].header.name)
             ser == ToStringPretty(s[i])
         IN  IF "base" \notin ds \/ (fault.at = i /\ fault.kind = "create")
             THEN [files |-> fs, status |-> "panicked"]
             ELSE IF ~ser.ok
             THEN [files |-> Put(fs, f, << >>), status |-> "panicked"]
             ELSE IF fault.at = i /\ fault.kind = "write"
             THEN SaveEntries(s, i + 1, ds, Put(fs, f, SubSeq(ser.text, 1, fault.len)), fault)
             ELSE SaveEntries(s, i + 1, ds, Put(fs, f, ser.text), fault)

\* SettingsManager::save
SaveResult(s, ds, fs, fault) == SaveEntries(s, 1, ds, fs, fault)

\* The faults a save() of s may meet: none, or one entry's create or write.
SaveFaults(s) ==
    {NoFault}
    \cup { [at |-> i, kind |-> "create", len |-> 0] : i \in 1..Len(s) }
    \cup UNION { { [at |-> i, kind |-> "write", len |-> k] :
                     k \in 0..(Len(ToStringPretty(s[i]).text) - 1) } : i \in 1..Len(s) }

\* The faults a load() over n files may meet: none (0), or the open or read
\* of one of them.
LoadFaults(n) == 0..n

\* SettingsManager::init: create_dir_all of <path>/default. A failure
\* leaves the directories as they were, or with the base path alone created.
InitDirs(ds, mk) ==
    IF mk = "ok" THEN ds \cup {"base", "default"}
    ELSE IF mk = "failed_in_base" THEN ds \cup {"base"}
    ELSE ds

\* The ways create_dir_all can end on these directories.
MkdirOutcomes(ds) ==
    {"ok"}
    \cup (IF "default" \notin ds THEN {"failed"} ELSE {})
    \cup (IF "base" \notin ds THEN {"failed_in_base"} ELSE {})

\* A new() that unwraps the result of init().
NewResultStrict(ds, fs, mk, order, failAt) ==
    LET r == LoadResult(<< >>, InitDirs(ds, mk), fs, order, failAt)
    IN  [dirs |-> InitDirs(ds, mk),
         settings |-> IF r.status = "ready" /\ mk = "ok" THEN r.settings ELSE << >>,
         status |-> IF mk = "ok" THEN r.status ELSE "panicked"]

\* SettingsManager::new: a manager with no entries, init() with its result
\* dropped, then load(). A panic unwinds through new() and drops the
\* manager under construction.
NewResult(ds, fs, mk, order, failAt) ==
    LET r == LoadResult(<< >>, InitDirs(ds, mk), fs, order, failAt)
    IN  [dirs |-> InitDirs(ds, mk),
         settings |-> IF r.status = "ready" THEN r.settings ELSE << >>,
         status |-> r.status]

----------------------------------------------------------------------------
(* The record of the last call *)

Last(op, name, outcome, mkdir, fault) ==
    [op |-> op, name |-> name, outcome |-> outcome, mkdir |-> mkdir, fault |-> fault]

----------------------------------------------------------------------------
(* Actions *)

\* let mut m = SettingsManager::new(Some(path))
New ==
    \E mk \in MkdirOutcomes(dirs) :
    \E order \in Orders(TomlFiles(files)) :
    \E failAt \in LoadFaults(Cardinality(TomlFiles(files))) :
        LET r == NewResult(dirs, files, mk, order, failAt)
        IN  /\ failAt > 0 => faults < MaxFaults
            /\ faults' = IF failAt > 0 THEN faults + 1 ELSE faults
            /\ dirs' = r.dirs
            /\ settings' = r.settings
            /\ status' = r.status
            /\ last' = Last("new", EmptyString, r.status, mk, failAt > 0)
            /\ UNCHANGED <<files, now>>

\* A push that also writes the entries to disk.
PushAndSave(c) ==
    /\ status = "ready"
    /\  LET r == PushResult(settings, c, now)
            w == SaveResult(r.settings, dirs, files, NoFault)
        IN  /\ Len(r.settings) <= MaxEntries
            /\ r.outcome # "exists" => now < MaxClock
            /\ settings' = r.settings
            /\ now' = IF r.outcome = "exists" THEN now ELSE now + 1
            /\ status' = r.status
            /\ files' = IF r.outcome = "added" THEN w.files ELSE files
            /\ last' = Last("push", c.header.name, r.outcome, "none", FALSE)
            /\ UNCHANGED <<dirs, faults>>

\* m.push(c)
Push(c) ==
    /\ status = "ready"
    /\  LET r == PushResult(settings, c, now)
        IN  /\ Len(r.settings) <= MaxEntries
            /\ r.outcome # "exists" => now < MaxClock
            /\ settings' = r.settings
            /\ now' = IF r.outcome = "exists" THEN now ELSE now + 1
            /\ status' = r.status
            /\ last' = Last("push", c.header.name, r.outcome, "none", FALSE)
            /\ UNCHANGED <<dirs, files, faults>>

\* m.load()
Load ==
    /\ status = "ready"
    /\ \E order \in Orders(TomlFiles(files)) :
       \E failAt \in LoadFaults(Cardinality(TomlFiles(files))) :
        LET r == LoadResult(settings, dirs, files, order, failAt)
        IN  /\ failAt > 0 => faults < MaxFaults
            /\ faults' = IF failAt > 0 THEN faults + 1 ELSE faults
            /\ r.status = "ready" => Len(r.settings) <= MaxEntries
            /\ settings' = r.settings
            /\ status' = r.status
            /\ last' = Last("load", EmptyString, r.status, "none", failAt > 0)
            /\ UNCHANGED <<dirs, files, now>>

\* m.save()
Save ==
    /\ status = "ready"
    /\ \E fault \in SaveFaults(settings) :
        LET r == SaveResult(settings, dirs, files, fault)
        IN  /\ fault.at > 0 => faults < MaxFaults
            /\ faults' = IF fault.at > 0 THEN faults + 1 ELSE faults
            /\ files' = r.files
            /\ status' = r.status
            /\ last' = Last("save", EmptyString, r.status, "none", fault.at > 0)
            /\ UNCHANGED <<dirs, settings, now>>

\* The entries callers construct: Content::default() with a name and
\* settings set, and the modified flag set (which push clears).
Contents ==
    { MakeContent(n, TRUE, EmptyString, EmptyString, p) :
        n \in NameSet, p \in PayloadSet }

PushAny == \E c \in Contents : Push(c)

----------------------------------------------------------------------------
(* Specifications *)

NotesTxt == <<"base", <<"n", ".", "txt">>>>
DefaultToml == <<"default", <<"d", ".", "toml">>>>
BadToml == <<"base", <<"x", ".", "toml">>>>
Garbage == << <<"???">> >>

\* The directories a manager may be constructed over: a base path that does
\* not exist, an empty one, one holding files that are no entries (another
\* extension, a file in default/), one holding a toml file that is no entry.
InitFileSystems ==
    { [dirs |-> {}, files |-> NoFiles],
      [dirs |-> {"base"}, files |-> NoFiles],
      [dirs |-> {"base", "default"},
       files |-> Put(Put(NoFiles, NotesTxt, Garbage), DefaultToml, Garbage)],
      [dirs |-> {"base"}, files |-> Put(NoFiles, BadToml, Garbage)] }

Init ==
    /\ \E fsys \in InitFileSystems : dirs = fsys.dirs /\ files = fsys.files
    /\ settings = << >>
    /\ status = "absent"
    /\ now = 0
    /\ faults = 0
    /\ last = Last("none", EmptyString, "none", "none", FALSE)

Next == New \/ PushAny \/ Load \/ Save

Spec == Init /\ [][Next]_vars

\* A manager constructed over an empty base directory, then only push and
\* save.
InitEmpty ==
    /\ \E mk \in MkdirOutcomes({"base"}) :
        LET r == NewResult({"base"}, NoFiles, mk, << >>, 0)
        IN  /\ dirs = r.dirs
            /\ settings = r.settings
            /\ status = r.status
            /\ last = Last("new", EmptyString, r.status, mk, FALSE)
    /\ files = NoFiles
    /\ now = 0
    /\ faults = 0

NextPushSave == PushAny \/ Save

SpecPushSave == InitEmpty /\ [][NextPushSave]_vars

----------------------------------------------------------------------------
(* Properties *)

\* No two entries of a sequence have the same header name.
NamesDistinct(s) ==
    \A i, j \in 1..Len(s) : s[i].header.name = s[j].header.name => i = j

\* Entry i of s is in t, by name and payload.
Kept(s, i, t) ==
    \E j \in 1..Len(t) : /\ t[j].header.name = s[i].header.name
                         /\ t[j].settings = s[i].settings

\* Every toml file of the base directory parses as an entry.
AllParse(fs) == \A f \in TomlFiles(fs) : FromStr(fs[f]).ok

\* C1: entries with pairwise distinct names that were pushed and saved
\* without any fault are all found, by name and payload, in a fresh manager
\* constructed on the same base path.
C1_RoundTrip ==
    [][ ( /\ last.op = "save" /\ status = "ready" /\ faults = 0
          /\ NamesDistinct(settings)
          /\ last'.op = "new" /\ status' = "ready" )
        => \A i \in 1..Len(settings) : Kept(settings, i, settings') ]_vars

\* C2: a push of a name some in-memory entry already has leaves the
\* in-memory sequence exactly as it was, and the manager usable.
C2_DuplicatePushNoOp ==
    [][ ( /\ last'.op = "push"
          /\ \E i \in 1..Len(settings) : settings[i].header.name = last'.name )
        => (settings' = settings /\ status' = "ready") ]_vars

C2_Witness ==
    /\ last.op = "push" /\ last.outcome = "exists"
    /\ Len(settings) = 1

\* C3: from a manager constructed over an empty base directory, by push and
\* save alone, no two in-memory entries ever have the same header name.
C3_NamesUnique == NamesDistinct(settings)

C3_Witness ==
    /\ last.op = "push" /\ last.outcome = "exists"
    /\ Len(settings) = 2
    /\ TomlFiles(files) # {}

\* C4: after a save() that met no fault, on entries with pairwise distinct
\* names, every entry e has the file <base>/<e.header.name>.toml, holding
\* exactly the pretty serialization of e.
C4_OneFilePerEntry ==
    ( /\ last.op = "save" /\ status = "ready" /\ faults = 0
      /\ NamesDistinct(settings) )
    => \A i \in 1..Len(settings) :
         LET f == <<"base", settings[i].header.name \o <<".", "toml">>>>
         IN  /\ f \in DOMAIN files
             /\ files[f] = ToStringPretty(settings[i]).text

\* C5: a load() that fails leaves no partial result: the in-memory sequence
\* is what it was before the call.
C5_LoadAllOrNothing ==
    [][ (last'.op = "load" /\ status' = "panicked") => settings' = settings ]_vars

\* C6: a save() in which a file operation failed does not return normally,
\* and after a normal return every in-memory entry's file holds the full
\* serialization of an entry written to it.
C6_SaveFailuresFatal ==
    /\ (last.op = "save" /\ last.fault) => status = "panicked"
    /\ (last.op = "save" /\ status = "ready")
       => \A i \in 1..Len(settings) :
            LET f == FileName(settings[i].header.name)
            IN  /\ f \in DOMAIN files
                /\ \E j \in 1..Len(settings) :
                     /\ FileName(settings[j].header.name) = f
                     /\ files[f] = ToStringPretty(settings[j]).text

\* The entry a push has just added is in no file of the base directory.
C7_NotVisible ==
    (last.op = "push" /\ last.outcome = "added")
    => \A f \in TomlFiles(files) :
         ~(FromStr(files[f]).ok /\ FromStr(files[f]).content = settings[Len(settings)])

\* C7: a push, successful or duplicate, leaves the directories and every
\* file as they were, and the entry it adds is not on disk until a save().
C7_PushLeavesDisk ==
    /\ []C7_NotVisible
    /\ [][ last'.op = "push" => (files' = files /\ dirs' = dirs) ]_vars

C7_Witness ==
    /\ last.op = "push" /\ last.outcome = "added"
    /\ TomlFiles(files) # {}
    /\ FileName(last.name) \notin DOMAIN files

\* C8: entries in memory are never rewritten by push, load or save (a push
\* stamps only the entry it adds, with the clock's reading); save() leaves
\* the sequence as it is; every entry a fresh manager loads after a save()
\* has the whole header of an entry the saving manager held.
C8_HeaderStable ==
    [][ /\ last'.op \in {"push", "load", "save"}
           => /\ Len(settings') >= Len(settings)
              /\ SubSeq(settings', 1, Len(settings)) = settings
        /\ last'.op = "save" => settings' = settings
        /\ (last'.op = "push" /\ last'.outcome = "added")
           => /\ Len(settings') = Len(settings) + 1
              /\ settings'[Len(settings')].header.date = DateToString(now)
        /\ (last.op = "save" /\ status = "ready" /\ last'.op = "new")
           => \A j \in 1..Len(settings') :
                \E i \in 1..Len(settings) : settings'[j].header = settings[i].header
      ]_vars

C8_Witness ==
    /\ last.op = "new" /\ status = "ready"
    /\ Len(settings) = 2
    /\ \E i \in 1..2 : settings[i].header.date = DateToString(1)
    /\ \A i \in 1..2 : settings[i].header.hash # EmptyString

\* C9 as stated: when create_dir_all fails, construction still returns a
\* manager (no file fault, every toml file parseable).
C9_Original ==
    ( /\ last.op = "new" /\ last.mkdir # "ok"
      /\ ~last.fault /\ AllParse(files) )
    => status = "ready"

\* C9 amended: when create_dir_all fails, construction goes on to load()
\* and returns a manager exactly when the base directory exists, no file
\* operation fails and every toml file in it parses.
C9_Amended ==
    (last.op = "new" /\ last.mkdir # "ok")
    => ( status = "ready"
         <=> ("base" \in dirs /\ ~last.fault /\ AllParse(files)) )

C9_Witness ==
    /\ last.op = "new" /\ last.mkdir = "failed"
    /\ status = "ready"
    /\ "default" \notin dirs

\* The files directly in the base directory whose name ends in ".toml".
BaseTomlCount(fs) ==
    Cardinality({ p \in DOMAIN fs :
        /\ p[1] = "base"
        /\ Len(p[2]) >= 3
        /\ p[2][Len(p[2]) - 1] = "."
        /\ p[2][Len(p[2])] = "toml" })

\* C10: a successful load() on k entries over m toml files of the base
\* directory leaves k + m entries, the first k as they were.
C10_LoadAppends ==
    [][ (last'.op = "load" /\ status' = "ready")
        => /\ Len(settings') = Len(settings) + BaseTomlCount(files)
           /\ SubSeq(settings', 1, Len(settings)) = settings ]_vars

C10_Witness ==
    /\ last.op = "save" /\ status = "ready"
    /\ Len(settings) = 2
    /\ settings[1].header.name = settings[2].header.name
    /\ Cardinality(TomlFiles(files)) = 1

====
